---- MODULE Spec2Model ----
(***************************************************************************)
(* Model of scraper.py: the fetch / extract / translate pipeline.          *)
(*                                                                         *)
(* Python strings are sequences of one-character strings.  NL stands for   *)
(* the newline character, MK for one occurrence of the boilerplate marker  *)
(* substring of extract_chapter_text (scraper.py line 107).                *)
(*                                                                         *)
(* The program is sequential.  Each action is one external call (GET,      *)
(* sleep, translate, file write) or one pure stage (link extraction,       *)
(* content extraction), followed by the code that runs up to the next one. *)
(***************************************************************************)
EXTENDS Integers, Sequences, FiniteSets, TLC

\* ------------------------------------------------------------------ bounds
MaxRetries == 3      \* largest value of the retries argument
MaxStart == 2        \* largest value of start_from
MaxCount == 2        \* largest value of max_chapters when it is set
MaxAnchors == 2      \* most anchors in the chapter-list container
MaxTextLen == 5      \* longest text given to translate_text on its own
MaxTitleLen == 5     \* longest title given to sanitize_filename on its own
MaxNodes == 3        \* most children of the content div given to extract_chapter_text

\* --------------------------------------------------------- string helpers
NL == "NL"
MK == "MK"
SP == " "

\* str.strip(): the characters Python strips
IsSpace(c) == c \in {SP, NL}

RECURSIVE LStrip(_)
LStrip(s) == IF s = <<>> THEN <<>>
             ELSE IF IsSpace(Head(s)) THEN LStrip(Tail(s)) ELSE s

RECURSIVE RStrip(_)
RStrip(s) == IF s = <<>> THEN <<>>
             ELSE IF IsSpace(s[Len(s)]) THEN RStrip(SubSeq(s, 1, Len(s) - 1)) ELSE s

\* str.strip()
Strip(s) == RStrip(LStrip(s))

\* str.split("\n"): always at least one piece
RECURSIVE Split(_)
Split(s) ==
    IF \A i \in DOMAIN s : s[i] # NL THEN <<s>>
    ELSE LET i == CHOOSE k \in DOMAIN s : s[k] = NL /\ \A j \in 1..(k - 1) : s[j] # NL
         IN  <<SubSeq(s, 1, i - 1)>> \o Split(SubSeq(s, i + 1, Len(s)))

\* "\n".join(lines)
RECURSIVE Join(_)
Join(ls) == IF ls = <<>> THEN <<>>
            ELSE IF Len(ls) = 1 THEN ls[1]
            ELSE ls[1] \o <<NL>> \o Join(Tail(ls))

\* [line for line in text.split("\n") if line.strip()]
NonBlank(line) == Strip(line) # <<>>
NonBlankLines(text) == SelectSeq(Split(text), NonBlank)

\* all sequences over S of length at most n
SeqsUpTo(S, n) == UNION {[1..k -> S] : k \in 0..n}

\* ------------------------------------------------------------------ pages
\* A response body.  empty: the body is the empty string.  container: the
\* markup has an element with id tbchapterlist, holding `anchors`.  div: the
\* markup has the styled content <div>, holding `nodes`.
Page(e, c, as, d, ns) ==
    [empty |-> e, container |-> c, anchors |-> as, div |-> d, nodes |-> ns]
EmptyPage == Page(TRUE, FALSE, <<>>, FALSE, <<>>)
BarePage == Page(FALSE, FALSE, <<>>, FALSE, <<>>)
IndexPage(as) == Page(FALSE, TRUE, as, FALSE, <<>>)
ChapterPage(ns) == Page(FALSE, FALSE, <<>>, TRUE, ns)

\* an <a> element: href is <<>> when the attribute is absent or empty
Anchor(h, t) == [href |-> h, text |-> t]
\* a child of the content <div>: a <p> with one text child, a <br/>, a text node
P(t) == [tag |-> "p", text |-> t]
Br == [tag |-> "br", text |-> <<>>]
Txt(t) == [tag |-> "text", text |-> t]

\* fetch_url's result: None, or the response text
None == [none |-> TRUE, page |-> EmptyPage]
Body(p) == [none |-> FALSE, page |-> p]
\* (seeded fault) the result of fetch_url is not tested
FalsyNever(r) == FALSE
\* `not html`
Falsy(r) == r.none \/ r.page.empty

\* -------------------------------------------------------- get_chapter_links
IndexUrl == <<"i", "/">>
\* urljoin(index_url, href) for a relative href
UrlJoin(base, href) == base \o href

\* lines 61-71: one entry per anchor with a non-empty href and visible text
LinkOf(a) == [title |-> Strip(a.text), url |-> UrlJoin(IndexUrl, a.href)]
\* (seeded fault) the title is not tested
KeptAnchorAnyTitle(a) == a.href # <<>>
\* line 64: if not href or not title: continue
KeptAnchor(a) == a.href # <<>> /\ Strip(a.text) # <<>>
ExtractLinks(page) ==
    LET kept == SelectSeq(page.anchors, KeptAnchor)
    IN  [i \in 1..Len(kept) |-> LinkOf(kept[i])]

\* ----------------------------------------------------- extract_chapter_text
HasMarker(line) == \E i \in DOMAIN line : line[i] = MK
NoMarker(line) == ~HasMarker(line)
\* elem.get_text(strip=True)
ElemText(n) == Strip(n.text)
IsParaOrBr(n) == n.tag \in {"p", "br"}
NonEmpty(s) == s # <<>>
\* lines 94-97
PrimaryLines(nodes) ==
    LET elems == SelectSeq(nodes, IsParaOrBr)
    IN  SelectSeq([i \in 1..Len(elems) |-> ElemText(elems[i])], NonEmpty)
\* content_div.get_text("\n", strip=True)
RawText(nodes) ==
    Join(SelectSeq([i \in 1..Len(nodes) |-> Strip(nodes[i].text)], NonEmpty))
\* lines 100-102
FallbackLines(nodes) == SelectSeq(Split(RawText(nodes)), NonBlank)
\* lines 91-102
Paragraphs(nodes) ==
    IF PrimaryLines(nodes) # <<>> THEN PrimaryLines(nodes) ELSE FallbackLines(nodes)
\* (seeded fault) only a line equal to the marker is dropped
CleanedExact(paragraphs) == SelectSeq(paragraphs, LAMBDA line : line # <<MK>>)
\* lines 105-109
Cleaned(paragraphs) == SelectSeq(paragraphs, NoMarker)
\* the whole function: raised, or the text returned
ExtractChapterText(page) ==
    IF ~page.div THEN [raised |-> TRUE, text |-> <<>>]
    ELSE [raised |-> FALSE, text |-> Join(Cleaned(Paragraphs(page.nodes)))]

\* --------------------------------------------------------- sanitize_filename
Invalid == {"\\", "/", ":", "*", "?", "\"", "<", ">", "|"}
\* (seeded fault) the invalid characters are removed, not replaced
RemoveInvalid(name) == SelectSeq(name, LAMBDA c : c \notin Invalid)
\* lines 142-143
ReplaceInvalid(name) ==
    [i \in 1..Len(name) |-> IF name[i] \in Invalid THEN "_" ELSE name[i]]
Fallback == <<"c", "h", "a", "p", "t", "e", "r">>
SanitizeFilename(name) ==
    IF Strip(ReplaceInvalid(name)) # <<>> THEN Strip(ReplaceInvalid(name)) ELSE Fallback

\* ------------------------------------------------------------- output path
Digit(d) == <<"0", "1", "2", "3", "4", "5", "6", "7", "8", "9">>[d + 1]
RECURSIVE Digits(_)
Digits(n) == IF n < 10 THEN <<Digit(n)>> ELSE Digits(n \div 10) \o <<Digit(n % 10)>>
RECURSIVE ZeroPad(_, _)
ZeroPad(s, w) == IF Len(s) >= w THEN s ELSE ZeroPad(<<"0">> \o s, w)
\* f"{n:04d}"
Fmt04d(n) == IF n >= 0 THEN ZeroPad(Digits(n), 4) ELSE <<"-">> \o ZeroPad(Digits(-n), 3)
OutputDir == <<"o">>
SuffixEn == <<"_", "e", "n", ".", "t", "x", "t">>
SuffixTxt == <<".", "t", "x", "t">>
\* (seeded fault) the chapter number is left out of the name
BaseNameNoIndex(i, title) == SanitizeFilename(title)
\* line 212
BaseName(i, title) == Fmt04d(i + 1) \o <<"_">> \o SanitizeFilename(title)
\* lines 222, 225: os.path.join(output_dir, base_name + suffix)
OutPath(i, title, tr) ==
    OutputDir \o <<"/">> \o BaseName(i, title) \o (IF tr THEN SuffixEn ELSE SuffixTxt)

\* -------------------------------------------------------- the translator
\* translator.translate(line) when the backend answers
GoogleTranslate(line) == [i \in 1..Len(line) |-> IF line[i] = "a" THEN "e" ELSE line[i]]

\* ------------------------------------------------------------------ state
VARIABLES
    mode,              \* entry point exercised: "run" (process_chapters) or "translate_text"
    start_from, max_chapters, translate, retries,   \* arguments of process_chapters
    pc,                \* the next step of the program
    fetching,          \* fetch_url's caller: "index", "chapter" or "none"
    attempt,           \* fetch_url's loop variable
    html,              \* the caller's `html`
    chapter_links, idx, zh_text, en_text,           \* locals of process_chapters
    t_text, t_enabled, t_translator,                \* arguments of translate_text
    lines, line_i, translated_lines,                \* locals of translate_text
    f_resps,           \* history: the GET outcomes of the current fetch_url call
    f_sleeps,          \* history: the back-off sleeps of the current fetch_url call
    f_done, f_ret,     \* history: the current fetch_url call has returned, and what
    index_ret,         \* history: what the index-page fetch returned
    trail,             \* history: per chapter started, its index and how far it got
    written,           \* history: the artifact writes, in order
    trCalls,           \* history: calls of translator.translate
    lineSleeps,        \* history: time.sleep(line_delay) calls
    paces,             \* history: time.sleep(request_delay) calls of process_chapters
    t_log,             \* history: the backend calls of the current translate_text call
    p_in, p_out,       \* argument and result of a pure function called on its own
    web,               \* two runs in a row: what each URL answers, in both runs
    run_no,            \* two runs in a row: the run in progress, 1 or 2
    files1,            \* two runs in a row: the output directory after run 1
    files,             \* the output directory: a set of [path, content]
    sleptSinceGet,     \* history: a request_delay sleep followed the last chapter GET
    linksTried         \* history: the index page reached the link extraction

params == <<mode, start_from, max_chapters, translate, retries>>
fvars == <<fetching, attempt, f_resps, f_sleeps, f_done, f_ret>>
tins == <<t_text, t_enabled, t_translator>>
tvars == <<lines, line_i, translated_lines, t_log>>
counts == <<trCalls, lineSleeps, paces>>
pure == <<p_in, p_out>>
env == <<web, run_no, files1>>
hist == <<files, sleptSinceGet, linksTried>>
vars == <<params, pure, env, hist, pc, fvars, html, chapter_links, idx, zh_text, en_text, tins, tvars,
          index_ret, trail, written, counts>>

\* max_chapters: None, or an integer
NoMax == [isNone |-> TRUE, n |-> 0]
Max(n) == [isNone |-> FALSE, n |-> n]

\* a GET outcome
Resp(kind, page) == [kind |-> kind, page |-> page]

\* ------------------------------------------------------------ the inputs
RetriesVals == (-1)..MaxRetries
StartVals == 0..MaxStart
MaxChaptersVals == {NoMax} \cup {Max(n) : n \in 0..MaxCount}

GoodAnchors == {Anchor(<<"c">>, <<"a">>), Anchor(<<"d">>, <<"/">>)}
IndexPages ==
    {EmptyPage, BarePage}
        \cup {IndexPage(as) : as \in SeqsUpTo(GoodAnchors, MaxAnchors)}
        \cup {IndexPage(<<Anchor(<<>>, <<"a">>), Anchor(<<"c">>, <<"a">>)>>),
              IndexPage(<<Anchor(<<"c">>, <<"a">>), Anchor(<<"d">>, <<SP>>)>>)}
ChapterPages ==
    {EmptyPage, BarePage,
     ChapterPage(<<P(<<MK>>)>>),
     ChapterPage(<<Br, Txt(<<"a">>)>>),
     ChapterPage(<<P(<<"a", NL, NL, "a">>), P(<<MK, "a">>)>>)}
PagesFor(who) == IF who = "index" THEN IndexPages ELSE ChapterPages

TextChars == {"a", SP, NL}
Texts == SeqsUpTo(TextChars, MaxTextLen)

TitleChars == {"A", "B", "C", "/", ":", SP}
Titles == SeqsUpTo(TitleChars, MaxTitleLen)

\* ------------------------------------------------------------------- Init
Idle ==
    /\ fetching = "none" /\ attempt = 0
    /\ f_resps = <<>> /\ f_sleeps = 0 /\ f_done = FALSE /\ f_ret = None
    /\ html = None /\ index_ret = None
    /\ chapter_links = <<>> /\ idx = 0 /\ zh_text = <<>> /\ en_text = <<>>
    /\ lines = <<>> /\ line_i = 0 /\ translated_lines = <<>> /\ t_log = <<>>
    /\ trail = <<>> /\ written = <<>>
    /\ trCalls = 0 /\ lineSleeps = 0 /\ paces = 0
    /\ sleptSinceGet = FALSE /\ linksTried = FALSE

\* a single call starting with an empty output directory
OneCall == web = <<>> /\ run_no = 1 /\ files1 = {} /\ files = {}

\* no pure function is called on its own
NoPure == p_in = <<>> /\ p_out = <<>>

\* process_chapters is called
Init ==
    /\ mode = "run"
    /\ NoPure /\ OneCall
    /\ start_from \in StartVals
    /\ max_chapters \in MaxChaptersVals
    /\ translate \in BOOLEAN
    /\ retries \in RetriesVals
    /\ pc = "start"
    /\ t_text = <<>> /\ t_enabled = FALSE /\ t_translator = "None"
    /\ Idle

\* translate_text is called on its own
InitTranslate ==
    /\ mode = "translate_text"
    /\ NoPure /\ OneCall
    /\ start_from = 0 /\ max_chapters = NoMax /\ translate = FALSE /\ retries = 0
    /\ pc = "t_entry"
    /\ t_text \in Texts
    /\ t_enabled \in BOOLEAN
    /\ t_translator \in {"None", "GoogleTranslator"}
    /\ Idle

\* --------------------------------------------------------------- fetch_url
\* what one GET can answer: 200 with a body, another status, a RequestException
Responses(who) ==
    {Resp("ok", p) : p \in PagesFor(who)}
        \cup {Resp("non200", EmptyPage), Resp("error", EmptyPage)}

\* line 32
IsOk(r) == r.kind = "ok"
\* (seeded fault) a status other than 200 is retried like a transport error
IsCaughtOrStatus(r) == r.kind \in {"error", "non200"}
\* line 37: the except clause catches the transport errors only
IsCaught(r) == r.kind = "error"
\* (seeded fault) the final attempt is not recognised: it sleeps as well
LastAttemptNever(a, n) == FALSE
\* line 39
LastAttempt(a, n) == a = n
\* (seeded fault) range(1, retries + 2): one attempt too many
InRangePlusOne(a, n) == a <= n + 1
\* line 28: range(1, retries + 1) has a next value
InRange(a, n) == a <= n
\* (seeded fault) a skipped or written chapter is taken up again
NextIndexSame(i) == i
\* line 191: enumerate gives the next position, also after `continue`
NextIndex(i) == i + 1

\* fetch_url returns res to `who`, which tests it: lines 50-51 of
\* get_chapter_links, lines 202-204 of process_chapters.  tr is the trail.
AfterFetch(who, res, tr) ==
    /\ f_done' = TRUE
    /\ f_ret' = res
    /\ html' = res
    /\ IF who = "index"
       THEN /\ index_ret' = res
            /\ pc' = IF Falsy(res) THEN "aborted" ELSE "links"
            /\ idx' = idx
            /\ trail' = tr
       ELSE /\ index_ret' = index_ret
            /\ trail' = [tr EXCEPT ![Len(tr)].fetch = IF res.none THEN "failed" ELSE "body"]
            /\ IF Falsy(res)
               THEN idx' = NextIndex(idx) /\ pc' = "loop"
               ELSE idx' = idx /\ pc' = "extract"

\* the URL of the current fetch_url call: line 48, line 201
Url == IF fetching = "index" THEN IndexUrl ELSE chapter_links[idx + 1].url
\* what the GET of line 31 can answer
Answers == IF mode = "twice" THEN {web[Url]} ELSE Responses(fetching)

\* the call itself, up to the first GET
BeginFetch(who, tr) ==
    /\ fetching' = who
    /\ attempt' = 1
    /\ f_resps' = <<>>
    /\ f_sleeps' = 0
    /\ IF InRange(1, retries)
       THEN /\ pc' = "get"
            /\ f_done' = FALSE
            /\ f_ret' = None
            /\ trail' = tr
            /\ UNCHANGED <<html, index_ret, idx>>
       ELSE AfterFetch(who, None, tr)

\* line 31 and what follows the answer, lines 32-40
FetchGet ==
    /\ pc = "get"
    /\ sleptSinceGet' = IF fetching = "chapter" THEN FALSE ELSE sleptSinceGet
    /\ UNCHANGED <<files, linksTried>>
    /\ \E r \in Answers :
        /\ f_resps' = Append(f_resps, r)
        /\ IF IsOk(r) THEN AfterFetch(fetching, Body(r.page), trail)
           ELSE IF ~IsCaught(r) THEN AfterFetch(fetching, None, trail)
           ELSE IF LastAttempt(attempt, retries) THEN AfterFetch(fetching, None, trail)
           ELSE /\ pc' = "backoff"
                /\ UNCHANGED <<f_done, f_ret, html, index_ret, idx, trail>>
    /\ UNCHANGED <<params, pure, env, fetching, attempt, f_sleeps, chapter_links, zh_text, en_text,
                   tins, tvars, written, counts>>

\* line 41, then the loop head at line 28
FetchSleep ==
    /\ pc = "backoff"
    /\ sleptSinceGet' = TRUE
    /\ UNCHANGED <<files, linksTried>>
    /\ f_sleeps' = f_sleeps + 1
    /\ attempt' = attempt + 1
    /\ IF InRange(attempt + 1, retries)
       THEN /\ pc' = "get"
            /\ UNCHANGED <<f_done, f_ret, html, index_ret, idx, trail>>
       ELSE AfterFetch(fetching, None, trail)
    /\ UNCHANGED <<params, pure, env, fetching, f_resps, chapter_links, zh_text, en_text,
                   tins, tvars, written, counts>>

\* ------------------------------------------------------- process_chapters
\* lines 171-173
Translator == IF translate THEN "GoogleTranslator" ELSE "None"

\* lines 164-182: up to the first GET of the index page
Start ==
    /\ pc = "start"
    /\ BeginFetch("index", trail)
    /\ UNCHANGED <<params, pure, env, hist, chapter_links, zh_text, en_text, tins, tvars, written, counts>>

\* (seeded fault) a page without the container counts as an empty chapter list
HasContainerAlways(page) == TRUE
\* lines 57-58
HasContainer(page) == page.container

\* line 186
NothingToDo(start, total) == start >= total

\* lines 53-71 of get_chapter_links, then lines 184-188
GetChapterLinks ==
    /\ pc = "links"
    /\ linksTried' = TRUE
    /\ UNCHANGED <<files, sleptSinceGet>>
    /\ IF ~HasContainer(html.page)
       THEN pc' = "aborted" /\ UNCHANGED <<chapter_links, idx>>
       ELSE /\ chapter_links' = ExtractLinks(html.page)
            /\ IF NothingToDo(start_from, Len(chapter_links'))
               THEN pc' = "done" /\ idx' = idx
               ELSE pc' = "loop" /\ idx' = start_from
    /\ UNCHANGED <<params, pure, env, fvars, html, zh_text, en_text, tins, tvars, index_ret,
                   trail, written, counts>>

\* (seeded fault) the break test is off by one
InWindowOffByOne(i, total, start, mx) ==
    /\ i < total
    /\ ~(~mx.isNone /\ i > start + mx.n)
\* lines 191-193: the loop has a chapter at position i (start_from >= 0) and
\* does not break on it
InWindow(i, total, start, mx) ==
    /\ i < total
    /\ ~(~mx.isNone /\ i >= start + mx.n)

\* lines 191-201: the loop head, up to the first GET of the chapter
LoopHead ==
    /\ pc = "loop"
    /\ IF InWindow(idx, Len(chapter_links), start_from, max_chapters)
       THEN BeginFetch("chapter",
                       Append(trail, [idx |-> idx, fetch |-> "pending", extract |-> "none"]))
       ELSE pc' = "done" /\ UNCHANGED <<fvars, html, index_ret, idx, trail>>
    /\ UNCHANGED <<params, pure, env, hist, chapter_links, zh_text, en_text, tins, tvars, written, counts>>

\* (seeded fault) the pass-through drops the blank lines as translate_text does
PassThroughFiltered(text) == Join(NonBlankLines(text))
\* line 224: en_text = zh_text
PassThrough(text) == text

\* lines 206-225: extraction, then the call of translate_text or the pass-through
Extract ==
    /\ pc = "extract"
    /\ LET r == ExtractChapterText(html.page)
       IN  IF r.raised
           THEN /\ trail' = [trail EXCEPT ![Len(trail)].extract = "raised"]
                /\ idx' = NextIndex(idx)
                /\ pc' = "loop"
                /\ UNCHANGED <<zh_text, en_text, tins>>
           ELSE /\ trail' = [trail EXCEPT ![Len(trail)].extract = "ok"]
                /\ idx' = idx
                /\ zh_text' = r.text
                /\ IF translate
                   THEN /\ t_text' = r.text
                        /\ t_enabled' = TRUE
                        /\ t_translator' = Translator
                        /\ pc' = "t_entry"
                        /\ en_text' = en_text
                   ELSE /\ en_text' = PassThrough(r.text)
                        /\ pc' = "write"
                        /\ UNCHANGED tins
    /\ UNCHANGED <<params, pure, env, hist, fvars, html, chapter_links, tvars, index_ret, written, counts>>

\* the content of the file at path p, empty when there is none
FileContent(fs, p) ==
    IF \E f \in fs : f.path = p THEN (CHOOSE f \in fs : f.path = p).content ELSE <<>>
\* (seeded fault) the file is opened for appending
OpenA(old, new) == old \o new
\* line 227: open(out_path, "w") truncates the file
OpenW(old, new) == new
\* lines 227-228 on the output directory fs
WriteFile(fs, p, text) ==
    {f \in fs : f.path # p} \cup {[path |-> p, content |-> OpenW(FileContent(fs, p), text)]}

\* lines 227-228
Write ==
    /\ pc = "write"
    /\ files' = WriteFile(files, OutPath(idx, chapter_links[idx + 1].title, translate), en_text)
    /\ UNCHANGED <<sleptSinceGet, linksTried>>
    /\ written' = Append(written,
                         [idx |-> idx,
                          path |-> OutPath(idx, chapter_links[idx + 1].title, translate),
                          content |-> en_text,
                          page |-> html.page])
    /\ pc' = "pace"
    /\ UNCHANGED <<params, pure, env, fvars, html, chapter_links, idx, zh_text, en_text, tins,
                   tvars, index_ret, trail, counts>>

\* (seeded fault) the sleep of line 231 is left out
PacedNot(n) == n
\* line 231: one sleep of request_delay
Paced(n) == n + 1

\* line 231, then the next iteration
Pace ==
    /\ pc = "pace"
    /\ paces' = Paced(paces)
    /\ sleptSinceGet' = (Paced(paces) > paces)
    /\ UNCHANGED <<files, linksTried>>
    /\ idx' = NextIndex(idx)
    /\ pc' = "loop"
    /\ UNCHANGED <<params, pure, env, fvars, html, chapter_links, zh_text, en_text, tins,
                   tvars, index_ret, trail, written, trCalls, lineSleeps>>

\* ---------------------------------------------------------- translate_text
\* translate_text returns v: to line 222 of process_chapters, or to its caller
TranslateReturns(v) ==
    /\ en_text' = v
    /\ pc' = IF mode = "run" THEN "write" ELSE "returned"

\* line 119
Bypass(enabled, translator) == ~enabled \/ translator = "None"

\* (seeded fault) a failed line is replaced by the empty string
LineResultBlank(line, ok) == IF ok THEN GoogleTranslate(line) ELSE <<>>
\* lines 126-130: what is appended for a line
LineResult(line, ok) == IF ok THEN GoogleTranslate(line) ELSE line

\* lines 119-125: up to the first backend call
TranslateEntry ==
    /\ pc = "t_entry"
    /\ IF Bypass(t_enabled, t_translator)
       THEN TranslateReturns(t_text) /\ UNCHANGED tvars
       ELSE /\ lines' = NonBlankLines(t_text)
            /\ translated_lines' = <<>>
            /\ t_log' = <<>>
            /\ IF lines' = <<>>
               THEN TranslateReturns(Join(<<>>)) /\ line_i' = 0
               ELSE pc' = "translate" /\ line_i' = 1 /\ en_text' = en_text
    /\ UNCHANGED <<params, pure, env, hist, fvars, html, chapter_links, idx, zh_text, tins, index_ret, trail,
                   written, counts>>

\* lines 126-131: one backend call, which answers or raises
TranslateLine ==
    /\ pc = "translate"
    /\ \E ok \in BOOLEAN :
        /\ translated_lines' = Append(translated_lines, LineResult(lines[line_i], ok))
        /\ t_log' = Append(t_log, [line |-> lines[line_i], ok |-> ok])
    /\ trCalls' = trCalls + 1
    /\ pc' = "line_sleep"
    /\ UNCHANGED <<params, pure, env, hist, fvars, html, chapter_links, idx, zh_text, en_text, tins, lines,
                   line_i, index_ret, trail, written, lineSleeps, paces>>

\* (seeded fault) the sleep is inside the try block, after the backend call
LineSleptIfOk(n, ok) == IF ok THEN n + 1 ELSE n
\* line 132: the sleep follows the try statement, whatever its outcome
LineSlept(n, ok) == n + 1

\* line 132, then the next line or line 134
LineSleep ==
    /\ pc = "line_sleep"
    /\ lineSleeps' = LineSlept(lineSleeps, t_log[Len(t_log)].ok)
    /\ IF line_i = Len(lines)
       THEN TranslateReturns(Join(translated_lines)) /\ line_i' = line_i
       ELSE pc' = "translate" /\ line_i' = line_i + 1 /\ en_text' = en_text
    /\ UNCHANGED <<params, pure, env, hist, fvars, html, chapter_links, idx, zh_text, tins, lines,
                   translated_lines, t_log, index_ret, trail, written, trCalls, paces>>

\* ---------------------------------------------------------- specifications
Next ==
    \/ Start
    \/ FetchGet
    \/ FetchSleep
    \/ GetChapterLinks
    \/ LoopHead
    \/ Extract
    \/ TranslateEntry
    \/ TranslateLine
    \/ LineSleep
    \/ Write
    \/ Pace

Spec == Init /\ [][Next]_vars

NextTranslate ==
    \/ TranslateEntry
    \/ TranslateLine
    \/ LineSleep

SpecTranslate == InitTranslate /\ [][NextTranslate]_vars

\* the state of a pure function called on its own: nothing else runs
PureCall(fn) ==
    /\ mode = fn
    /\ start_from = 0 /\ max_chapters = NoMax /\ translate = FALSE /\ retries = 0
    /\ pc = "call"
    /\ t_text = <<>> /\ t_enabled = FALSE /\ t_translator = "None"
    /\ p_out = <<>>
    /\ OneCall
    /\ Idle
PureReturns(v) ==
    /\ p_out' = v
    /\ pc' = "returned"
    /\ UNCHANGED <<params, p_in, env, hist, fvars, html, chapter_links, idx, zh_text, en_text, tins,
                   tvars, index_ret, trail, written, counts>>

\* sanitize_filename is called on its own
InitSanitize == PureCall("sanitize_filename") /\ p_in \in Titles
SanitizeCall ==
    /\ mode = "sanitize_filename" /\ pc = "call"
    /\ PureReturns(SanitizeFilename(p_in))
SpecSanitize == InitSanitize /\ [][SanitizeCall]_vars

\* get_chapter_links is given the markup of an index page that has the
\* container: lines 54-71 on their own
LinkAnchors ==
    {Anchor(h, t) : h \in {<<>>, <<"c">>, <<"d">>},
                    t \in {<<>>, <<SP>>, <<"a">>, <<SP, "a">>}}
InitLinks ==
    /\ PureCall("get_chapter_links")
    /\ p_in \in {IndexPage(as) : as \in SeqsUpTo(LinkAnchors, MaxAnchors)}
LinksCall ==
    /\ mode = "get_chapter_links" /\ pc = "call"
    /\ HasContainer(p_in)
    /\ PureReturns(ExtractLinks(p_in))
SpecLinks == InitLinks /\ [][LinksCall]_vars

\* extract_chapter_text is called on its own
DivNodes ==
    {Br, P(<<>>), P(<<"a">>), P(<<MK, "a">>),
     Txt(<<SP>>), Txt(<<"a">>), Txt(<<MK>>), Txt(<<"a", NL, SP, NL, "a", MK>>)}
InitExtract ==
    /\ PureCall("extract_chapter_text")
    /\ p_in \in {BarePage} \cup {ChapterPage(ns) : ns \in SeqsUpTo(DivNodes, MaxNodes)}
ExtractCall ==
    /\ mode = "extract_chapter_text" /\ pc = "call"
    /\ PureReturns(ExtractChapterText(p_in))
SpecExtract == InitExtract /\ [][ExtractCall]_vars

\* ------------------------------------------------------- a write that raises
\* lines 227-228 raise OSError (a file name too long, a full disk): nothing
\* in process_chapters catches it and the call ends there
WriteRaises ==
    /\ pc = "write"
    /\ pc' = "crashed"
    /\ UNCHANGED <<params, pure, env, hist, fvars, html, chapter_links, idx, zh_text, en_text,
                   tins, tvars, index_ret, trail, written, counts>>

NextWriteFails == Next \/ WriteRaises

SpecWriteFails == Init /\ [][NextWriteFails]_vars

\* --------------------------------------------------------- two runs in a row
\* process_chapters is called twice with the same arguments, translation
\* disabled, against a site where every GET of a URL is answered the same way
ChapterUrls == {UrlJoin(IndexUrl, a.href) : a \in GoodAnchors}
Webs ==
    {w \in [{IndexUrl} \cup ChapterUrls -> Responses("index") \cup Responses("chapter")] :
        /\ w[IndexUrl] \in Responses("index")
        /\ \A u \in ChapterUrls : w[u] \in Responses("chapter")}
InitTwice ==
    /\ mode = "twice"
    /\ NoPure
    /\ web \in Webs /\ run_no = 1 /\ files1 = {} /\ files = {}
    /\ start_from \in StartVals
    /\ max_chapters \in MaxChaptersVals
    /\ translate = FALSE
    /\ retries \in {1, MaxRetries}
    /\ pc = "start"
    /\ t_text = <<>> /\ t_enabled = FALSE /\ t_translator = "None"
    /\ Idle

\* the first call has ended (line 188, the end of the loop, or the RuntimeError
\* of get_chapter_links); the second call starts on the directory it left
RunAgain ==
    /\ mode = "twice" /\ run_no = 1
    /\ pc \in {"done", "aborted"}
    /\ run_no' = 2
    /\ files1' = files
    /\ pc' = "start"
    /\ fetching' = "none" /\ attempt' = 0
    /\ f_resps' = <<>> /\ f_sleeps' = 0 /\ f_done' = FALSE /\ f_ret' = None
    /\ html' = None /\ index_ret' = None
    /\ chapter_links' = <<>> /\ idx' = 0 /\ zh_text' = <<>> /\ en_text' = <<>>
    /\ lines' = <<>> /\ line_i' = 0 /\ translated_lines' = <<>> /\ t_log' = <<>>
    /\ trail' = <<>> /\ written' = <<>>
    /\ trCalls' = 0 /\ lineSleeps' = 0 /\ paces' = 0
    /\ sleptSinceGet' = FALSE /\ linksTried' = FALSE
    /\ UNCHANGED <<params, pure, web, files, tins>>

NextTwice ==
    \/ Start
    \/ FetchGet
    \/ FetchSleep
    \/ GetChapterLinks
    \/ LoopHead
    \/ Extract
    \/ Write
    \/ Pace
    \/ RunAgain

SpecTwice == InitTwice /\ [][NextTwice]_vars

\* ------------------------------------------------------------- properties
Running == mode = "run"
\* the current fetch_url call is between its GETs
InFetch == pc \in {"get", "backoff"}
Kinds(k) == {i \in DOMAIN f_resps : f_resps[i].kind = k}
Errors == Cardinality(Kinds("error"))
LastResp == f_resps[Len(f_resps)]

\* C1: in a fetch_url call, a GET that answers a status other than 200 is the
\* last GET of the call; the call has then returned None, and the only
\* back-off sleeps of the call are those that followed the transport errors
\* before that response.
C1_StatusIsTerminal ==
    \A i \in DOMAIN f_resps :
        f_resps[i].kind = "non200" =>
            /\ i = Len(f_resps)
            /\ ~InFetch
            /\ f_done /\ f_ret = None
            /\ f_sleeps = i - 1
            /\ \A j \in 1..(i - 1) : f_resps[j].kind = "error"

\* a status other than 200 after a transport error, with an attempt left
C1_Witness ==
    /\ f_done /\ Len(f_resps) = 2 /\ retries = 3
    /\ f_resps[1].kind = "error" /\ f_resps[2].kind = "non200"

\* C2: with retries >= 1, fetch_url sleeps once after each transport error
\* that another attempt follows, and never after the last attempt: k errors
\* then a 200 return the body after k sleeps, `retries` errors return None
\* after retries - 1 sleeps.
C2_BackoffBetweenAttempts ==
    (Running /\ retries >= 1 /\ fetching # "none") =>
        /\ pc = "get" => f_sleeps = Errors /\ Errors = Len(f_resps)
        /\ pc = "backoff" => f_sleeps = Errors - 1 /\ Errors = Len(f_resps)
                             /\ Len(f_resps) < retries
        /\ (f_done /\ LastResp.kind = "ok") =>
               /\ f_ret = Body(LastResp.page)
               /\ Errors = Len(f_resps) - 1
               /\ f_sleeps = Errors
               /\ Errors + 1 <= retries
        /\ (f_done /\ Errors = retries) => f_ret = None /\ f_sleeps = retries - 1
        /\ (f_done /\ LastResp.kind = "error") => Errors = retries

\* two transport errors, then a 200 on the third attempt
C2_Witness ==
    /\ f_done /\ ~f_ret.none /\ Errors = 2 /\ f_sleeps = 2 /\ Len(f_resps) = 3

\* C3: a fetch_url call issues at most `retries` GETs, none when
\* retries <= 0; what it returns is the body of the first 200 answer, which
\* ends the call, or None; it is None when every attempt ended in a
\* transport error, and a body is never returned without a 200 answer.
C3_BoundedAttempts ==
    Running =>
        /\ Len(f_resps) <= (IF retries > 0 THEN retries ELSE 0)
        /\ \A i \in Kinds("ok") :
               i = Len(f_resps) /\ f_done /\ f_ret = Body(f_resps[i].page)
        /\ (f_done /\ ~f_ret.none) => (f_resps # <<>> /\ LastResp.kind = "ok")
        /\ (f_done /\ Len(f_resps) = retries /\ Errors = retries) => f_ret = None
        /\ (f_done /\ retries <= 0) => f_ret = None

\* every one of three attempts ended in a transport error
C3_Witness ==
    /\ f_done /\ f_ret = None /\ retries = 3 /\ Errors = 3 /\ fetching = "chapter"

\* the index-page fetch has returned
IndexReturned == fetching = "chapter" \/ (fetching = "index" /\ f_done)
\* the chapter list has been resolved from the index page
Resolved ==
    /\ IndexReturned /\ ~index_ret.none /\ index_ret.page.container
    /\ pc # "links"
\* the window [start_from, min(N, start_from + max_chapters)) as a sequence
WindowHi ==
    IF max_chapters.isNone \/ Len(chapter_links) <= start_from + max_chapters.n
    THEN Len(chapter_links)
    ELSE start_from + max_chapters.n
WindowSeq ==
    [k \in 1..(IF WindowHi > start_from THEN WindowHi - start_from ELSE 0)
        |-> start_from + k - 1]
\* the chapters whose fetch has been started, in order
Started == [k \in DOMAIN trail |-> trail[k].idx]
WrittenIdx == {written[w].idx : w \in DOMAIN written}

\* C4: once the chapter list (length N) is resolved, the chapters whose fetch
\* is started are the positions start_from <= i < min(N, start_from +
\* max_chapters), all i >= start_from when max_chapters is None, each once and
\* in increasing order, whatever their outcomes; when start_from >= N the run
\* returns with nothing fetched and nothing written.
C4_Window ==
    Resolved =>
        /\ Len(trail) <= Len(WindowSeq)
        /\ Started = SubSeq(WindowSeq, 1, Len(trail))
        /\ pc = "done" => Started = WindowSeq
        /\ pc # "aborted"
        /\ start_from >= Len(chapter_links) =>
               pc = "done" /\ trail = <<>> /\ written = <<>>

\* a window that starts after the first chapter and is cut by the list's end
C4_Witness ==
    /\ pc = "done" /\ Len(chapter_links) = 2
    /\ start_from = 1 /\ max_chapters = Max(2)
    /\ Started = <<1>>

\* C5: a chapter whose fetch returned None or whose extraction raised has no
\* artifact, is started once only and does not abort the run; when the run
\* is done every later chapter of the window has been started, and written
\* if its own fetch and extraction succeeded.
C5_SkipIsFinal ==
    \A k \in DOMAIN trail :
        (trail[k].fetch = "failed" \/ trail[k].extract = "raised") =>
            /\ trail[k].idx \notin WrittenIdx
            /\ \A j \in DOMAIN trail : j # k => trail[j].idx # trail[k].idx
            /\ pc # "aborted"
            /\ pc = "done" =>
                   \A i \in (trail[k].idx + 1)..(WindowHi - 1) :
                       \E j \in DOMAIN trail :
                           /\ j > k /\ trail[j].idx = i
                           /\ (trail[j].fetch = "body" /\ trail[j].extract = "ok")
                                  => i \in WrittenIdx

\* the first chapter's extraction raised and the second chapter was written
C5_Witness ==
    /\ pc = "done" /\ Len(trail) = 2
    /\ trail[1].extract = "raised"
    /\ WrittenIdx = {trail[2].idx}

\* C6: when the index-page fetch returned None, or a page without the
\* tbchapterlist element, the run goes nowhere but to its abort: no chapter
\* fetch is started, the backend is not called, nothing is written, and the
\* run does not return normally.
C6_IndexFailureAborts ==
    (Running /\ IndexReturned /\ (index_ret.none \/ ~index_ret.page.container)) =>
        /\ pc \in {"links", "aborted"}
        /\ index_ret.none => pc = "aborted"
        /\ fetching = "index"
        /\ trail = <<>>
        /\ trCalls = 0
        /\ written = <<>>

\* the index page came with status 200 and markup, but without the container
C6_Witness ==
    /\ pc = "aborted"
    /\ ~index_ret.none /\ ~index_ret.page.empty /\ ~index_ret.page.container

\* a line with a character that is not white space
HasInk(line) == \E i \in DOMAIN line : ~IsSpace(line[i])
InkLines(text) == SelectSeq(Split(text), HasInk)

\* C7: translate_text with translation enabled returns, for every text and
\* every pattern of backend answers and errors, one line per non-blank input
\* line, in order: the backend's translation of that line, or the line itself
\* where the backend raised.
C7_TranslateLineByLine ==
    (pc = "returned" /\ ~Bypass(t_enabled, t_translator)) =>
        /\ Len(t_log) = Len(InkLines(t_text))
        /\ Len(translated_lines) = Len(InkLines(t_text))
        /\ \A k \in DOMAIN t_log :
               /\ t_log[k].line = InkLines(t_text)[k]
               /\ translated_lines[k] =
                      (IF t_log[k].ok THEN GoogleTranslate(InkLines(t_text)[k])
                       ELSE InkLines(t_text)[k])
        /\ en_text = Join(translated_lines)

\* three input lines, one blank; one line translated, one failed
C7_Witness ==
    /\ pc = "returned" /\ Len(Split(t_text)) = 3 /\ Len(t_log) = 2
    /\ t_log[1].ok /\ ~t_log[2].ok

\* C8: with translation disabled the run makes no backend call and no
\* per-line sleep, and every artifact's content is the text extracted from
\* its chapter's page, unchanged.
C8_DisabledIsIdentity ==
    (Running /\ ~translate) =>
        /\ trCalls = 0
        /\ lineSleeps = 0
        /\ pc \notin {"t_entry", "translate", "line_sleep"}
        /\ \A w \in DOMAIN written :
               /\ ~ExtractChapterText(written[w].page).raised
               /\ written[w].content = ExtractChapterText(written[w].page).text

\* an artifact written untranslated whose text has a blank line in it
C8_Witness ==
    /\ ~translate /\ Len(written) = 1
    /\ written[1].content = <<"a", NL, NL, "a">>

\* C9: a text returned by extract_chapter_text has at least one non-empty
\* line, so no artifact is written with empty content.
C9_ExtractedTextNotEmpty ==
    Running =>
        /\ pc \in {"t_entry", "translate", "line_sleep", "write", "pace"} =>
               InkLines(zh_text) # <<>>
        /\ \A w \in DOMAIN written : written[w].content # <<>>

\* C10: the artifact paths of one run are pairwise different, each holds the
\* chapter's 1-based number right after the directory, and the numbers
\* increase in write order.
C10_PathsUnique ==
    \A k \in DOMAIN written :
        /\ SubSeq(written[k].path, Len(OutputDir) + 2, Len(OutputDir) + 5)
               = Fmt04d(written[k].idx + 1)
        /\ \A j \in 1..(k - 1) :
               /\ written[j].path # written[k].path
               /\ written[j].idx < written[k].idx

\* two artifacts written for chapters with the same title and the same URL
C10_Witness ==
    /\ Len(written) = 2
    /\ chapter_links[written[1].idx + 1] = chapter_links[written[2].idx + 1]

Underscores(n) == [i \in 1..n |-> "_"]
AllInvalid(name) == name # <<>> /\ \A i \in DOMAIN name : name[i] \in Invalid
SanitizeReturned == mode = "sanitize_filename" /\ pc = "returned"

\* C11 as stated: a non-empty title made of invalid characters only maps to
\* "chapter", like an empty or blank title, and "A/B:C" maps to "A_B_C".
C11_AllInvalidGivesFallback ==
    SanitizeReturned =>
        /\ (AllInvalid(p_in) \/ Strip(p_in) = <<>>) => p_out = Fallback
        /\ p_in = <<"A", "/", "B", ":", "C">> => p_out = <<"A", "_", "B", "_", "C">>

\* C11 as amended: a title that is empty or blank maps to "chapter"; a
\* non-empty title made of invalid characters only maps to as many
\* underscores; "A/B:C" maps to "A_B_C"; no result holds an invalid character.
C11_AllInvalidGivesUnderscores ==
    SanitizeReturned =>
        /\ Strip(p_in) = <<>> => p_out = Fallback
        /\ AllInvalid(p_in) => p_out = Underscores(Len(p_in))
        /\ p_in = <<"A", "/", "B", ":", "C">> => p_out = <<"A", "_", "B", "_", "C">>
        /\ \A i \in DOMAIN p_out : p_out[i] \notin Invalid

\* a title of two invalid characters has been sanitized
C11_Witness == SanitizeReturned /\ p_in = <<"/", ":">>

SecondRunEnded == mode = "twice" /\ run_no = 2 /\ pc \in {"done", "aborted"}

\* C12: with translation disabled and every URL answered the same way in
\* both runs, the second run of process_chapters leaves the artifact paths
\* and contents of the first run: it writes every file of the first run
\* again, with the same content, and adds or removes none.
C12_SecondRunChangesNothing ==
    SecondRunEnded =>
        /\ files = files1
        /\ {[path |-> written[k].path, content |-> written[k].content] :
               k \in DOMAIN written} = files1

\* a second run has written two files again
C12_Witness == SecondRunEnded /\ Cardinality(files1) = 2 /\ Len(written) = 2

LinksReturned == mode = "get_chapter_links" /\ pc = "returned"
\* the anchor has an href and some visible text
WellFormed(a) == Len(a.href) > 0 /\ \E i \in DOMAIN a.text : a.text[i] # SP
RECURSIVE EntriesOf(_)
EntriesOf(as) ==
    IF as = <<>> THEN <<>>
    ELSE (IF WellFormed(Head(as))
          THEN <<[title |-> Strip(Head(as).text), url |-> IndexUrl \o Head(as).href]>>
          ELSE <<>>) \o EntriesOf(Tail(as))

\* C13: for an index page whose container holds a sequence of anchors,
\* get_chapter_links returns one entry per anchor that has a non-empty href
\* and non-empty visible text, in document order, duplicates kept; the other
\* anchors give no entry and no error; N well-formed anchors give N entries.
C13_OneEntryPerWellFormedAnchor ==
    LinksReturned =>
        /\ p_out = EntriesOf(p_in.anchors)
        /\ Len(p_out) = Cardinality({i \in DOMAIN p_in.anchors : WellFormed(p_in.anchors[i])})

\* two equal well-formed anchors gave two equal entries
C13_Witness ==
    /\ LinksReturned
    /\ Len(p_in.anchors) = 2 /\ p_in.anchors[1] = p_in.anchors[2]
    /\ Len(p_out) = 2

\* the chapter of trail entry e has no artifact and the loop has left it
Skipped(e) ==
    \/ e.fetch = "failed"
    \/ e.extract = "raised"
    \/ e.fetch = "body" /\ e.extract = "none"
Finished(e) == e.idx \in WrittenIdx \/ Skipped(e)
Current == trail[Len(trail)]
InChapter ==
    \/ pc \in {"get", "backoff"} /\ fetching = "chapter"
    \/ pc \in {"extract", "t_entry", "translate", "line_sleep", "write", "pace"}

\* C14: at most one chapter is in progress; its steps come in the order
\* fetch, extract, translate (only when enabled), write; an artifact is
\* written only for a chapter whose fetch returned a body and whose
\* extraction succeeded; no later chapter is fetched before the chapter has
\* been written or skipped.
C14_OneChapterAtATime ==
    Running =>
        /\ \A k \in DOMAIN trail : k < Len(trail) => Finished(trail[k])
        /\ \A w \in DOMAIN written :
               \E k \in DOMAIN trail :
                   /\ trail[k].idx = written[w].idx
                   /\ trail[k].fetch = "body" /\ trail[k].extract = "ok"
        /\ InChapter =>
               /\ trail # <<>> /\ Current.idx = idx
               /\ (pc \in {"get", "backoff"}) =>
                      Current.fetch = "pending" /\ Current.extract = "none"
               /\ pc = "extract" => Current.fetch = "body" /\ Current.extract = "none"
               /\ (pc \in {"t_entry", "translate", "line_sleep"}) =>
                      translate /\ Current.fetch = "body" /\ Current.extract = "ok"
               /\ pc = "write" =>
                      /\ Current.fetch = "body" /\ Current.extract = "ok"
                      /\ Len(t_log) = (IF translate THEN Len(InkLines(zh_text)) ELSE 0)
               /\ pc # "pace" => idx \notin WrittenIdx
               /\ pc = "pace" => written[Len(written)].idx = idx

\* the second chapter has been fetched, extracted and translated and is about
\* to be written; the first one was written before
C14_Witness ==
    /\ Running /\ pc = "write" /\ translate /\ Len(t_log) > 0
    /\ Len(trail) = 2 /\ trail[1].idx \in WrittenIdx

\* C15: every artifact write is followed by exactly one sleep of
\* request_delay before the first GET of the next chapter or the end of the
\* run, also after the last chapter of the window: outside the moment between
\* a write and its sleep there are as many pacing sleeps as writes.
C15_OneSleepAfterEachWrite ==
    Running =>
        /\ pc = "pace" => paces + 1 = Len(written)
        /\ pc # "pace" => paces = Len(written)
        /\ (pc = "get" /\ fetching = "chapter" /\ f_resps = <<>> /\ Len(trail) > 1
                /\ trail[Len(trail) - 1].idx \in WrittenIdx) => sleptSinceGet

\* the run ended after two writes, the last chapter of the window included
C15_Witness ==
    /\ Running /\ pc = "done"
    /\ Len(written) = 2 /\ written[2].idx + 1 = Len(chapter_links)
    /\ paces = 2

\* C16: when the first GET of a chapter is issued after the GETs of the
\* chapter before it, a sleep of request_delay has happened since the last of
\* those GETs, also when the earlier chapter was skipped for a non-200
\* response or a failed extraction.
C16_SleepBetweenChapterGets ==
    (Running /\ pc = "get" /\ fetching = "chapter" /\ f_resps = <<>> /\ Len(trail) > 1)
        => sleptSinceGet

\* C17: translate_text with translation enabled submits each non-blank input
\* line once, one at a time in input order, and sleeps line_delay once after
\* each submission, answered or raised: calls and sleeps alternate, and n
\* non-blank lines give n calls and n sleeps.
C17_CallsAndSleepsAlternate ==
    (mode = "translate_text" /\ ~Bypass(t_enabled, t_translator)) =>
        /\ Len(t_log) = trCalls
        /\ [k \in DOMAIN t_log |-> t_log[k].line] = SubSeq(InkLines(t_text), 1, trCalls)
        /\ pc = "translate" => lineSleeps = trCalls /\ trCalls < Len(InkLines(t_text))
        /\ pc = "line_sleep" => lineSleeps + 1 = trCalls
        /\ pc = "returned" => lineSleeps = trCalls /\ trCalls = Len(InkLines(t_text))

\* two lines were submitted, the first answered and the second raised, and
\* two sleeps were taken
C17_Witness ==
    /\ mode = "translate_text" /\ pc = "returned"
    /\ Len(t_log) = 2 /\ t_log[1].ok /\ ~t_log[2].ok
    /\ trCalls = 2 /\ lineSleeps = 2

ExtractReturned == mode = "extract_chapter_text" /\ pc = "returned"
\* the visible text of the <p> and <br/> children that have some, in order
RECURSIVE ParaTexts(_)
ParaTexts(ns) ==
    IF ns = <<>> THEN <<>>
    ELSE (IF Head(ns).tag # "text" /\ HasInk(Head(ns).text)
          THEN <<Strip(Head(ns).text)>> ELSE <<>>) \o ParaTexts(Tail(ns))
\* the trimmed strings of all children that have some, in order
RECURSIVE Pieces(_)
Pieces(ns) ==
    IF ns = <<>> THEN <<>>
    ELSE (IF HasInk(Head(ns).text) THEN <<Strip(Head(ns).text)>> ELSE <<>>)
             \o Pieces(Tail(ns))
\* the lines the claim starts from
SourceLines(ns) ==
    IF ParaTexts(ns) # <<>> THEN ParaTexts(ns) ELSE InkLines(Join(Pieces(ns)))
RECURSIVE MarkerFree(_)
MarkerFree(ls) ==
    IF ls = <<>> THEN <<>>
    ELSE (IF MK \in {Head(ls)[i] : i \in DOMAIN Head(ls)} THEN <<>> ELSE <<Head(ls)>>)
             \o MarkerFree(Tail(ls))

\* C18: when the content container is found, extract_chapter_text returns
\* the paragraph and line-break lines if there is at least one, otherwise the
\* non-blank lines of the container's flattened text, in document order,
\* without the lines that contain the boilerplate marker and with every other
\* line.
C18_ExactMarkerFilter ==
    (ExtractReturned /\ p_in.div) =>
        /\ ~p_out.raised
        /\ p_out.text = Join(MarkerFree(SourceLines(p_in.nodes)))

\* the fallback was used on a text of three lines: the blank line and the
\* marker line are gone, the marker-free line is returned
C18_Witness ==
    /\ ExtractReturned
    /\ p_in.nodes = <<Br, Txt(<<"a", NL, SP, NL, "a", MK>>)>>
    /\ p_out.text = <<"a">>

\* the call has ended: it returned, or an exception left it
Ended == pc \in {"done", "aborted", "crashed"}
\* every chapter of the window has been started, and written or skipped
WindowSettled ==
    \A i \in start_from..(WindowHi - 1) :
        \E k \in DOMAIN trail : trail[k].idx = i /\ Finished(trail[k])

\* some action can be taken: every action is guarded by its value of pc
\* alone, and the GET has an answer to give
CanStep ==
    /\ pc \in {"start", "get", "backoff", "links", "loop", "extract", "t_entry",
               "translate", "line_sleep", "write", "pace"}
    /\ pc = "get" => Answers # {}

\* a bound on the steps a chapter can still take, and on those of the run
LineCap == MaxTextLen + 1
FetchLeft == 2 * (retries - attempt)
ChapterBudget == 2 * LineCap + 2 * MaxRetries + 6
ChapterRank ==
    CASE pc = "get" -> 2 * LineCap + 7 + FetchLeft
      [] pc = "backoff" -> 2 * LineCap + 6 + FetchLeft
      [] pc = "extract" -> 2 * LineCap + 6
      [] pc = "t_entry" -> 2 * LineCap + 5
      [] pc = "translate" -> 2 * (Len(lines) - line_i) + 4
      [] pc = "line_sleep" -> 2 * (Len(lines) - line_i) + 3
      [] pc = "write" -> 2
      [] pc = "pace" -> 1
IndexRank == ChapterBudget * (MaxAnchors + 1) + 2
Rank ==
    CASE Ended -> 0
      [] pc = "start" -> IndexRank + 2 * MaxRetries + 2
      [] pc \in {"get", "backoff"} /\ fetching = "index" ->
             IndexRank + FetchLeft + (IF pc = "get" THEN 1 ELSE 0)
      [] pc = "links" -> IndexRank
      [] pc = "loop" -> ChapterBudget * (Len(chapter_links) - idx) + 1
      [] OTHER -> ChapterBudget * (Len(chapter_links) - idx - 1) + 1 + ChapterRank

\* C19 as stated: with a finite chapter list, finite retries and external
\* calls that return or raise, the run is never stuck before its end, and
\* when it has ended every chapter of the window is written or skipped.
C19_EndsWithWindowSettled ==
    Running =>
        /\ ~Ended => CanStep
        /\ (Ended /\ Resolved) => WindowSettled

\* C19 as amended: the run is never stuck before its end and every step
\* brings the end nearer, so every run ends; when process_chapters returns
\* normally every chapter of the window is written or skipped; a file write
\* that raises ends the run with that chapter neither written nor skipped.
C19_EndsAndSettledOnReturn ==
    /\ [](Running =>
            /\ ~Ended => CanStep
            /\ Rank >= 0
            /\ (pc = "done" /\ Resolved) => WindowSettled
            /\ pc = "crashed" => ~Finished(Current))
    /\ [][Rank' < Rank]_vars

\* the run returned after a window of two chapters, one skipped, one written
C19_Witness ==
    /\ Running /\ pc = "done" /\ Len(trail) = 2
    /\ trail[1].fetch = "failed" /\ trail[2].idx \in WrittenIdx

\* C20: a GET that answers 200 is never treated as a failed fetch, whatever
\* the body: a chapter whose fetch returned a body has gone on to the content
\* extraction when the loop leaves it, and an index page whose fetch returned
\* a body goes on to the link extraction.
C20_Status200IsNotAFetchFailure ==
    Running =>
        /\ \A k \in DOMAIN trail :
               (trail[k].fetch = "body" /\ (k < Len(trail) \/ pc \in {"loop", "done"}))
                   => trail[k].extract # "none"
        /\ (IndexReturned /\ ~index_ret.none) => (pc = "links" \/ linksTried)

====
